---- MODULE Spec2Model ----
(***************************************************************************)
(* Model of the finance-tracker account core:                              *)
(*   - the Account entity (src/src/domain/entities/account.rs),            *)
(*   - the PostgreSQL account repository                                   *)
(*     (src/src/infrastructure/database/postgres_account_repository.rs),   *)
(*   - the AccountService use cases                                        *)
(*     (src/src/application/services/account_service.rs),                  *)
(*   - the conversion of service errors to HTTP responses                  *)
(*     (src/src/presentation/api/error.rs).                                *)
(*                                                                         *)
(* Specifications.  EntitySpec drives one Account value through deposit    *)
(* and withdraw directly, ScenarioSpec does so with amounts in minor       *)
(* units.  RepoSpec makes the repository calls directly on the table.      *)
(* Spec runs the use cases one at a time against the accounts table,       *)
(* LedgerSpec also keeps a ledger of what succeeded, FailSpec lets store   *)
(* calls fail.  RaceSpec runs the use cases of concurrent callers against  *)
(* the shared table, CreateRaceSpec their Creates on the empty table,      *)
(* LostUpdateSpec their Deposits and Withdraws on one account.  ApiSpec    *)
(* converts service errors to responses.  A use case is                    *)
(* cut into one step per store call (each `.await`); the synchronous code  *)
(* that follows a store call belongs to the same step.                     *)
(*                                                                         *)
(* Scaling.  The balance is an i64.  TLC cannot count to 2^63, so the      *)
(* model keeps the two's-complement behaviour on a narrower range          *)
(* MinInt..MaxInt.  Timestamps are readings of a clock 0..MaxTime.         *)
(***************************************************************************)
EXTENDS Integers, Sequences, FiniteSets, TLC

\* ---------------------------------------------------------------- bounds
\* Largest value of the scaled-down i64 (stands for i64::MAX).
MaxInt == 2
\* Last reading of the wall clock.
MaxTime == 1
MinInt == -(MaxInt + 1)
Int64 == MinInt..MaxInt
\* The identifiers Uuid::new_v4 hands out, in the order it hands them out.
Ids == {1, 2}
Times == 0..MaxTime

\* Concurrent callers of the service (HTTP requests in flight).
Callers == {"c1", "c2"}
Names == {"Wallet", "WALLET", "Savings"}
Currencies == {"USD", "RUB"}
\* The CreateAccountRequest values the callers send.
CreateRequests ==
    {[name |-> "Wallet", currency |-> "USD"],
     [name |-> "WALLET", currency |-> "RUB"],
     [name |-> "Savings", currency |-> "USD"]}

\* What `balance += amount` does when the sum leaves the i64 range: the
\* build decides (overflow checks on: panic; off: two's-complement wrap).
OverflowModes == {"panic", "wrap"}

\* Two's-complement wrap of x into -(max + 1)..max.
WrapTo(x, max) == ((x + max + 1) % (2 * (max + 1))) - (max + 1)

\* Two's-complement wrap of x into MinInt..MaxInt.
Wrap(x) == WrapTo(x, MaxInt)

\* Every name a repository call is made with (the request names and other
\* spellings of them).
QueryNames == {"Wallet", "WALLET", "wallet", "WaLLeT", "Wall", "Savings"}

\* The characters of a name, in order.
Letters(s) ==
    CASE s = "Wallet" -> <<"W", "a", "l", "l", "e", "t">>
      [] s = "WALLET" -> <<"W", "A", "L", "L", "E", "T">>
      [] s = "wallet" -> <<"w", "a", "l", "l", "e", "t">>
      [] s = "WaLLeT" -> <<"W", "a", "L", "L", "e", "T">>
      [] s = "Wall" -> <<"W", "a", "l", "l">>
      [] s = "Savings" -> <<"S", "a", "v", "i", "n", "g", "s">>
      [] OTHER -> <<s>>

\* LOWER / to_lowercase on one character (the names are ASCII).
lower_char(ch) ==
    CASE ch = "W" -> "w"
      [] ch = "A" -> "a"
      [] ch = "L" -> "l"
      [] ch = "E" -> "e"
      [] ch = "T" -> "t"
      [] ch = "S" -> "s"
      [] OTHER -> ch

\* to_lowercase as it would be if it left the characters as they are.
to_lowercase_keeps_case(s) == Letters(s)

\* str::to_lowercase / SQL LOWER: the characters of s, each in lower case.
to_lowercase(s) == [k \in 1..Len(Letters(s)) |-> lower_char(Letters(s)[k])]

\* ---------------------------------------------------------------- state
VARIABLES
    ent,        \* EntitySpec: the Account value under test
    entLast,    \* EntitySpec: the last entity call and what it returned
    entMutated, \* EntitySpec: TRUE once a deposit or withdraw succeeded
    entTrace,   \* ScenarioSpec: the entity calls made so far, in order
    store,      \* Spec: the accounts table, id -> row or NoRow
    nextId,     \* Spec: the next identifier Uuid::new_v4 hands out
    task,       \* Spec: per caller, the use case in flight and its locals
    last,       \* Spec: the last step taken and its outcome
    deleted,    \* Spec: the ids whose Delete use case has succeeded
    ledger      \* LedgerSpec, LostUpdateSpec: per id, the amounts of the
                \* Deposits that succeeded minus those of the Withdraws
                \* that succeeded

vars == <<ent, entLast, entMutated, entTrace, store, nextId, task, last,
          deleted, ledger>>
entVars == <<ent, entLast, entMutated, entTrace>>
svcVars == <<store, nextId, task, last, deleted, ledger>>

NoRow == [id |-> 0]

\* ------------------------------------------------------- DomainError etc.
Ok == [kind |-> "Ok", available |-> 0, requested |-> 0]
InvalidAmount == [kind |-> "InvalidAmount", available |-> 0, requested |-> 0]
InsufficientFunds(a, r) ==
    [kind |-> "InsufficientFunds", available |-> a, requested |-> r]
\* Not a DomainError: the arithmetic-overflow panic of a checked build.
Panic == [kind |-> "panic", available |-> 0, requested |-> 0]

\* Utc::now() reads the wall clock, which can be set back as well as run
\* on: a call can return any reading, whatever the one before it was.
ClockReadings == Times
\* The readings of a run in which Utc::now() returns one of two readings,
\* the later one before or after the earlier one.
TwoReadings == {0, MaxTime}

\* ------------------------------------------------------------ the entity
Account_new(id, name, currency, t) ==
    [id |-> id, name |-> name, balance |-> 0, currency |-> currency,
     created_at |-> t, updated_at |-> t]

\* Account::deposit as it would be without the `amount <= 0` check.
Account_deposit_no_guard(acc, amount, t, mode) ==
    IF acc.balance + amount > MaxInt /\ mode = "panic"
    THEN [acc |-> acc, res |-> Panic]
    ELSE [acc |-> [acc EXCEPT !.balance = Wrap(acc.balance + amount),
                              !.updated_at = t],
          res |-> Ok]

\* Account::deposit on a balance type whose largest value is max.  Returns
\* the account after the call and the result; t is the reading Utc::now()
\* gives, mode what the build does on overflow.
Account_deposit_at(acc, amount, t, mode, max) ==
    IF amount <= 0
    THEN [acc |-> acc, res |-> InvalidAmount]
    ELSE IF acc.balance + amount > max /\ mode = "panic"
    THEN [acc |-> acc, res |-> Panic]
    ELSE [acc |-> [acc EXCEPT !.balance = WrapTo(acc.balance + amount, max),
                              !.updated_at = t],
          res |-> Ok]

\* Account::deposit on the scaled-down i64.
Account_deposit(acc, amount, t, mode) ==
    Account_deposit_at(acc, amount, t, mode, MaxInt)

\* Account::withdraw as it would be with the two figures of
\* InsufficientFunds swapped.
Account_withdraw_swapped_figures(acc, amount, t) ==
    IF amount <= 0
    THEN [acc |-> acc, res |-> InvalidAmount]
    ELSE IF acc.balance < amount
    THEN [acc |-> acc, res |-> InsufficientFunds(amount, acc.balance)]
    ELSE [acc |-> [acc EXCEPT !.balance = acc.balance - amount,
                              !.updated_at = t],
          res |-> Ok]

\* Account::withdraw as it would be without the balance check.
Account_withdraw_no_balance_check(acc, amount, t) ==
    IF amount <= 0
    THEN [acc |-> acc, res |-> InvalidAmount]
    ELSE [acc |-> [acc EXCEPT !.balance = acc.balance - amount,
                              !.updated_at = t],
          res |-> Ok]

\* Account::withdraw.  balance >= amount > 0 where it subtracts, so the
\* subtraction cannot leave the i64 range.
Account_withdraw(acc, amount, t) ==
    IF amount <= 0
    THEN [acc |-> acc, res |-> InvalidAmount]
    ELSE IF acc.balance < amount
    THEN [acc |-> acc, res |-> InsufficientFunds(acc.balance, amount)]
    ELSE [acc |-> [acc EXCEPT !.balance = acc.balance - amount,
                              !.updated_at = t],
          res |-> Ok]

\* ------------------------------------------------- EntitySpec: the entity
\* entLast: the call, its argument, the account value it was made on
\* (before) and the results (r2: the second call of deposit_withdraw).
EntCall(op, amount, before, r1, r2) ==
    [op |-> op, amount |-> amount, before |-> before, r1 |-> r1, r2 |-> r2]
NoRes == [kind |-> "none", available |-> 0, requested |-> 0]

SvcIdle ==
    /\ store = [i \in Ids |-> NoRow]
    /\ nextId = 1
    /\ task = [c \in Callers |-> [pc |-> "idle", id |-> 0, amount |-> 0, acct |-> NoRow]]
    /\ last = [op |-> "none"]
    /\ deleted = {}
    /\ ledger = [i \in Ids |-> 0]

EntInit ==
    /\ \E n \in Names, cur \in Currencies, t \in ClockReadings :
          ent = Account_new(1, n, cur, t)
    /\ entLast = EntCall("new", 0, NoRow, Ok, NoRes)
    /\ entMutated = FALSE
    /\ entTrace = <<>>
    /\ SvcIdle

\* One call of Account::deposit on the value.
EntDeposit ==
    \E amount \in Int64, mode \in OverflowModes, t \in ClockReadings :
        LET r == Account_deposit(ent, amount, t, mode) IN
        /\ ent' = r.acc
        /\ entLast' = EntCall("deposit", amount, ent, r.res, NoRes)
        /\ entMutated' = (entMutated \/ r.res.kind = "Ok")
        /\ UNCHANGED <<entTrace, svcVars>>

\* One call of Account::withdraw on the value.
EntWithdraw ==
    \E amount \in Int64, t \in ClockReadings :
        LET r == Account_withdraw(ent, amount, t) IN
        /\ ent' = r.acc
        /\ entLast' = EntCall("withdraw", amount, ent, r.res, NoRes)
        /\ entMutated' = (entMutated \/ r.res.kind = "Ok")
        /\ UNCHANGED <<entTrace, svcVars>>

\* deposit(a) immediately followed by withdraw(a) on the same value; the
\* withdraw is attempted unless the deposit panicked.
EntDepositWithdraw ==
    \E amount \in Int64, mode \in OverflowModes, t1, t2 \in ClockReadings :
        LET r1 == Account_deposit(ent, amount, t1, mode)
            r2 == Account_withdraw(r1.acc, amount, t2)
        IN
        /\ IF r1.res.kind = "panic"
           THEN /\ ent' = r1.acc
                /\ entLast' = EntCall("deposit_withdraw", amount, ent,
                                      r1.res, NoRes)
                /\ entMutated' = entMutated
           ELSE /\ ent' = r2.acc
                /\ entLast' = EntCall("deposit_withdraw", amount, ent,
                                      r1.res, r2.res)
                /\ entMutated' =
                       (entMutated \/ r1.res.kind = "Ok" \/ r2.res.kind = "Ok")
        /\ UNCHANGED <<entTrace, svcVars>>

EntNext == EntDeposit \/ EntWithdraw \/ EntDepositWithdraw

EntitySpec == EntInit /\ [][EntNext]_vars

\* ------------------------------------------- ScenarioSpec: minor units
\* The entity on amounts of everyday size, in minor units.  The balance
\* type is wide enough (ScenarioMaxInt) for no sum of MaxTrace such amounts
\* to leave it, as with the i64.
ScenarioMaxInt == 1048575
\* Number of entity calls a scenario is followed for.
MaxTrace == 4
ScenarioAmounts == {10050, 5000, 6000}

\* One entry of entTrace: the call, its result and the balance after it.
TraceEntry(op, amount, res, balance) ==
    [op |-> op, amount |-> amount, res |-> res, balance |-> balance]

\* Account::new("Savings", "USD").
ScenInit ==
    /\ ent = Account_new(1, "Savings", "USD", 0)
    /\ entLast = EntCall("new", 0, NoRow, Ok, NoRes)
    /\ entMutated = FALSE
    /\ entTrace = <<>>
    /\ SvcIdle

\* One call of Account::deposit with an amount in minor units.
ScenDeposit ==
    /\ Len(entTrace) < MaxTrace
    /\ \E amount \in ScenarioAmounts, mode \in OverflowModes,
          t \in ClockReadings :
        LET r == Account_deposit_at(ent, amount, t, mode, ScenarioMaxInt) IN
        /\ ent' = r.acc
        /\ entLast' = EntCall("deposit", amount, ent, r.res, NoRes)
        /\ entMutated' = (entMutated \/ r.res.kind = "Ok")
        /\ entTrace' = Append(entTrace, TraceEntry("deposit", amount, r.res,
                                                   r.acc.balance))
        /\ UNCHANGED svcVars

\* One call of Account::withdraw with an amount in minor units.
ScenWithdraw ==
    /\ Len(entTrace) < MaxTrace
    /\ \E amount \in ScenarioAmounts, t \in ClockReadings :
        LET r == Account_withdraw(ent, amount, t) IN
        /\ ent' = r.acc
        /\ entLast' = EntCall("withdraw", amount, ent, r.res, NoRes)
        /\ entMutated' = (entMutated \/ r.res.kind = "Ok")
        /\ entTrace' = Append(entTrace, TraceEntry("withdraw", amount, r.res,
                                                   r.acc.balance))
        /\ UNCHANGED svcVars

ScenNext == ScenDeposit \/ ScenWithdraw

ScenarioSpec == ScenInit /\ [][ScenNext]_vars

\* ------------------------------------------- the accounts table (Postgres)
\* The statements of PostgresAccountRepository on a table value.  A store
\* call can also fail (sqlx::Error); a failed statement changes nothing.

\* SELECT ... WHERE id = $1, fetch_optional: the row or NoRow.
find_by_id(tbl, id) == tbl[id]

\* find_by_name as it would be with WHERE name = $1.
find_by_name_case_sensitive(tbl, name) ==
    LET hits == {tbl[i] : i \in {j \in Ids : tbl[j] # NoRow /\ tbl[j].name = name}}
    IN IF hits = {} THEN {NoRow} ELSE hits

\* SELECT ... WHERE LOWER(name) = LOWER($1), fetch_optional: the rows it can
\* return (the first row of the result set, whichever the server sends
\* first), or NoRow when nothing matches.
find_by_name(tbl, name) ==
    LET hits == {tbl[i] : i \in {j \in Ids : /\ tbl[j] # NoRow
                                              /\ to_lowercase(tbl[j].name)
                                                   = to_lowercase(name)}}
    IN IF hits = {} THEN {NoRow} ELSE hits

\* find_all as it would be if a row could come back more than once.
find_all_may_repeat(tbl) ==
    LET live == {i \in Ids : tbl[i] # NoRow}
        n == Cardinality(live)
    IN {s \in [1..n -> live] :
            \A i, j \in 1..n :
                i < j => tbl[s[i]].created_at >= tbl[s[j]].created_at}

\* SELECT ... ORDER BY created_at DESC, fetch_all: the possible result
\* lists (rows with equal created_at come in either order).
find_all(tbl) ==
    LET live == {i \in Ids : tbl[i] # NoRow}
        n == Cardinality(live)
    IN {s \in [1..n -> live] :
            /\ \A i, j \in 1..n : i # j => s[i] # s[j]
            /\ \A i, j \in 1..n :
                   i < j => tbl[s[i]].created_at >= tbl[s[j]].created_at}

\* INSERT INTO accounts (...) VALUES (...).
repo_create(tbl, acc) == [tbl EXCEPT ![acc.id] = acc]

\* update as it would be if it inserted the record when no row has its id
\* (INSERT ... ON CONFLICT (id) DO UPDATE).
update_or_insert(tbl, acc) == [tbl EXCEPT ![acc.id] = acc]

\* update as it would be with created_at in its SET list.
update_writes_created_at(tbl, acc) ==
    IF tbl[acc.id] = NoRow
    THEN tbl
    ELSE [tbl EXCEPT ![acc.id] = [@ EXCEPT !.name = acc.name,
                                           !.balance = acc.balance,
                                           !.currency = acc.currency,
                                           !.created_at = acc.updated_at,
                                           !.updated_at = acc.updated_at]]

\* update as it would be without the balance column in its SET list.
update_keeps_balance(tbl, acc) ==
    IF tbl[acc.id] = NoRow
    THEN tbl
    ELSE [tbl EXCEPT ![acc.id] = [@ EXCEPT !.name = acc.name,
                                           !.currency = acc.currency,
                                           !.updated_at = acc.updated_at]]

\* UPDATE accounts SET name, balance, currency, updated_at WHERE id = $1:
\* no row with that id, no change (and no error).
update(tbl, acc) ==
    IF tbl[acc.id] = NoRow
    THEN tbl
    ELSE [tbl EXCEPT ![acc.id] = [@ EXCEPT !.name = acc.name,
                                           !.balance = acc.balance,
                                           !.currency = acc.currency,
                                           !.updated_at = acc.updated_at]]

\* delete as it would be without its WHERE clause.
delete_without_where(tbl, id) == [i \in Ids |-> NoRow]

\* delete as it would be with a WHERE clause that matches no row.
delete_no_row(tbl, id) == tbl

\* DELETE FROM accounts WHERE id = $1.
delete(tbl, id) == [tbl EXCEPT ![id] = NoRow]

\* ------------------------------------ RepoSpec: the repository on its own
\* The repository calls made directly on the table, with any of QueryNames;
\* `last` records the call and what it returned.
RepoCall(op, id, name, acct) ==
    [op |-> op, phase |-> "repo", id |-> id, name |-> name, acct |-> acct]

RepoInit ==
    /\ store = [i \in Ids |-> NoRow]
    /\ nextId = 1
    /\ task = [c \in Callers |-> [pc |-> "idle", id |-> 0, amount |-> 0, acct |-> NoRow]]
    /\ last = RepoCall("none", 0, "", NoRow)
    /\ deleted = {}
    /\ ledger = [i \in Ids |-> 0]
    /\ ent = NoRow
    /\ entLast = [op |-> "none"]
    /\ entMutated = FALSE
    /\ entTrace = <<>>

\* create(&Account::new(name, currency)).
RepoCreate ==
    /\ nextId \in Ids
    /\ \E name \in QueryNames :
        LET acc == Account_new(nextId, name, "USD", 0) IN
        /\ store' = repo_create(store, acc)
        /\ last' = RepoCall("create", nextId, name, acc)
    /\ nextId' = nextId + 1
    /\ UNCHANGED <<task, deleted, ledger, entVars>>

\* find_by_name(name).
RepoFindByName ==
    /\ \E name \in QueryNames :
        \E found \in find_by_name(store, name) :
            last' = RepoCall("find_by_name", 0, name, found)
    /\ UNCHANGED <<store, nextId, task, deleted, ledger, entVars>>

\* delete(id).
RepoDelete ==
    /\ \E id \in Ids :
        /\ store' = delete(store, id)
        /\ last' = RepoCall("delete", id, "", NoRow)
    /\ UNCHANGED <<nextId, task, deleted, ledger, entVars>>

RepoNext == RepoCreate \/ RepoFindByName \/ RepoDelete

RepoSpec == RepoInit /\ [][RepoNext]_vars

\* ------------------------------------------------------ request amounts
\* f64 arithmetic (IEEE 754 binary64: 53 significant bits, every result
\* the nearest f64, the one with the even last bit of two equally near).
\* The amounts of money met here are far from the smallest f64.
RECURSIVE Pow2(_)
Pow2(k) == IF k = 0 THEN 1 ELSE 2 * Pow2(k - 1)

\* The whole number e with 2^e <= n / d < 2^(e + 1), for n > 0 and d > 0.
RECURSIVE FloorLog2(_, _)
FloorLog2(n, d) ==
    IF n >= 2 * d THEN FloorLog2(n, 2 * d) + 1
    ELSE IF n < d THEN FloorLog2(2 * n, d) - 1
    ELSE 0

\* The whole number nearest to n / d (n >= 0, d > 0), the even one of two
\* equally near.
RoundHalfEven(n, d) ==
    LET quot == n \div d
        rest == n % d
    IN IF 2 * rest > d \/ (2 * rest = d /\ quot % 2 = 1)
       THEN quot + 1 ELSE quot

\* The f64 nearest to n / d (n > 0, d > 0), written [m, e] for m * 2^e with
\* 2^52 <= m <= 2^53.
f64_nearest(n, d) ==
    LET e == FloorLog2(n, d) - 52 IN
    [m |-> IF e >= 0 THEN RoundHalfEven(n, d * Pow2(e))
           ELSE RoundHalfEven(n * Pow2(-e), d),
     e |-> e]

\* An f64 that is a number (JSON carries no NaN and no infinity): negative
\* or not, and of size m * 2^e with 0 <= m < 2^53.
F64(neg, m, e) == [neg |-> neg, m |-> m, e |-> e]

\* The f64 nearest to m * 2^e (m >= 0): m cut to 53 bits.  Written [m, e].
f64_round(m, e) ==
    IF m = 0 \/ FloorLog2(m, 1) < 53 THEN [m |-> m, e |-> e]
    ELSE LET k == FloorLog2(m, 1) - 52 IN
         [m |-> RoundHalfEven(m, Pow2(k)), e |-> e + k]

\* The size of x * 100.0 for an f64 x.  (A product past the largest f64 is
\* an infinity; as a number it is then past every i64 as well.)
times_100(x) == f64_round(x.m * 100, x.e)

\* f64::round on a size p: the nearest whole number, halves away from zero.
f64_round_half_away(p) ==
    IF p.e >= 0 THEN p.m * Pow2(p.e)
    ELSE LET d == Pow2(-p.e) IN
         (p.m \div d) + (IF 2 * (p.m % d) >= d THEN 1 ELSE 0)

\* `as i64`: saturating.
as_i64(x) == IF x > MaxInt THEN MaxInt ELSE IF x < MinInt THEN MinInt ELSE x

\* (request.amount * 100.0).round() as i64.  DepositRequest.amount and
\* WithdrawRequest.amount are f64 in major units; the product is an f64
\* again (0.145 * 100.0 = 14.499999999999998 gives 14 cents).
to_cents(x) ==
    LET r == f64_round_half_away(times_100(x)) IN
    as_i64(IF x.neg THEN -r ELSE r)

\* Request amounts: 2^-k major units, which is 100 / 2^k cents.
\* 2^-9 = 0.001953125 gives 0 cents, 2^-7 = 0.0078125 gives 1 cent and
\* 2^-6 = 0.015625 gives 2 cents.
Dyadic(k) == F64(FALSE, 1, -k)
Minus(x) == [x EXCEPT !.neg = TRUE]

\* A request too large for i64 once in cents.
BigRequest == F64(FALSE, MaxInt, 0)
RequestAmounts == {Dyadic(9), Dyadic(7), Dyadic(6), BigRequest}

\* to_cents worked out once for the amounts 2^-6 .. 2^-9, their negatives
\* and BigRequest.
cents_of_request ==
    [x \in {F64(neg, 1, -k) : neg \in BOOLEAN, k \in 6..9} \cup {BigRequest}
        |-> to_cents(x)]

\* let amount_cents = (request.amount * 100.0).round() as i64;
amount_cents(x) ==
    IF x \in DOMAIN cents_of_request THEN cents_of_request[x] ELSE to_cents(x)

\* ------------------------------------------------- the use cases (Spec)
\* The ledger counts within MinInt - 1 .. MaxInt + 1; its two ends stand for
\* "less than every balance" and "more than every balance" and, once
\* reached, stay.
LedgerOver == MaxInt + 1
LedgerUnder == MinInt - 1

\* The ledger after a Deposit (amount > 0) or Withdraw (amount < 0) on id
\* has returned success.
Booked(led, id, amount) ==
    [led EXCEPT ![id] =
        IF @ \in {LedgerOver, LedgerUnder} THEN @
        ELSE IF @ + amount > MaxInt THEN LedgerOver
        ELSE IF @ + amount < MinInt THEN LedgerUnder
        ELSE @ + amount]

Idle == [pc |-> "idle", id |-> 0, amount |-> 0, acct |-> NoRow]

NotFoundRes == [kind |-> "AccountNotFound", available |-> 0, requested |-> 0]
AlreadyExists ==
    [kind |-> "AccountAlreadyExists", available |-> 0, requested |-> 0]
Repository == [kind |-> "Repository", available |-> 0, requested |-> 0]
Pending == [kind |-> "pending", available |-> 0, requested |-> 0]

\* last: the step just taken.  phase "lookup" is the first store call of a
\* use case and the synchronous code after it, phase "write" the second.
\* id and name are the request's arguments, amount the request amount in
\* cents, acct the account returned to the caller, list ListAll's answer,
\* ok whether the store call of the step succeeded.
Event(op, phase, id, name, amount, res, acct, list, ok) ==
    [op |-> op, phase |-> phase, id |-> id, name |-> name,
     amount |-> amount, res |-> res, acct |-> acct, list |-> list,
     ok |-> ok]

Init ==
    /\ store = [i \in Ids |-> NoRow]
    /\ nextId = 1
    /\ task = [c \in Callers |-> Idle]
    /\ last = Event("init", "-", 0, "", 0, NoRes, NoRow, <<>>, TRUE)
    /\ deleted = {}
    /\ ledger = [i \in Ids |-> 0]
    /\ ent = NoRow
    /\ entLast = EntCall("none", 0, NoRow, NoRes, NoRes)
    /\ entMutated = FALSE
    /\ entTrace = <<>>

\* AccountService::create_account up to and including find_by_name, the
\* name check and Account::new.
create_account_find(c, name, currency, t, db_ok) ==
    /\ task[c].pc = "idle"
    /\ \E found \in find_by_name(store, name) :
        IF ~db_ok
        THEN /\ last' = Event("Create", "lookup", 0, name, 0,
                              Repository, NoRow, <<>>, db_ok)
             /\ UNCHANGED <<task, nextId>>
        ELSE IF found # NoRow
        THEN /\ last' = Event("Create", "lookup", 0, name, 0,
                              AlreadyExists, NoRow, <<>>, db_ok)
             /\ UNCHANGED <<task, nextId>>
        ELSE /\ nextId \in Ids
             /\ task' = [task EXCEPT ![c] =
                    [pc |-> "create", id |-> nextId, amount |-> 0,
                     acct |-> Account_new(nextId, name, currency, t)]]
             /\ nextId' = nextId + 1
             /\ last' = Event("Create", "lookup", nextId, name, 0,
                              Pending, NoRow, <<>>, db_ok)
    /\ UNCHANGED <<store, deleted, ledger, entVars>>

\* AccountService::create_account: repository.create and the return.
create_account_insert(c, db_ok) ==
    /\ task[c].pc = "create"
    /\  IF db_ok
        THEN /\ store' = repo_create(store, task[c].acct)
             /\ last' = Event("Create", "write", task[c].id,
                              task[c].acct.name, 0, Ok, task[c].acct, <<>>, db_ok)
        ELSE /\ store' = store
             /\ last' = Event("Create", "write", task[c].id,
                              task[c].acct.name, 0, Repository, NoRow, <<>>, db_ok)
    /\ task' = [task EXCEPT ![c] = Idle]
    /\ UNCHANGED <<nextId, deleted, ledger, entVars>>

\* AccountService::get_account.
get_account(c, id, db_ok) ==
    /\ task[c].pc = "idle"
    /\  LET found == find_by_id(store, id) IN
        last' = Event("Get", "lookup", id, "", 0,
                      IF ~db_ok THEN Repository
                      ELSE IF found = NoRow THEN NotFoundRes ELSE Ok,
                      IF db_ok THEN found ELSE NoRow, <<>>, db_ok)
    /\ UNCHANGED <<store, nextId, task, deleted, ledger, entVars>>

\* AccountService::get_all_accounts.
get_all_accounts(c, db_ok) ==
    /\ task[c].pc = "idle"
    /\ \E rows \in find_all(store) :
        last' = Event("ListAll", "lookup", 0, "", 0,
                      IF db_ok THEN Ok ELSE Repository, NoRow,
                      IF db_ok THEN rows ELSE <<>>, db_ok)
    /\ UNCHANGED <<store, nextId, task, deleted, ledger, entVars>>

\* deposit_sync as it would be with the amount checked before the lookup
\* result.
deposit_sync_validates_first(found, cents, t, mode) ==
    IF cents <= 0
    THEN [acc |-> found, res |-> InvalidAmount]
    ELSE IF found = NoRow
    THEN [acc |-> NoRow, res |-> NotFoundRes]
    ELSE Account_deposit(found, cents, t, mode)

\* deposit_sync as it would be if it called Account::withdraw.
deposit_sync_withdraws(found, cents, t, mode) ==
    IF found = NoRow
    THEN [acc |-> NoRow, res |-> NotFoundRes]
    ELSE Account_withdraw(found, cents, t)

\* AccountService::deposit between find_by_id and update: the not-found
\* check first, then Account::deposit on the account found.
deposit_sync(found, cents, t, mode) ==
    IF found = NoRow
    THEN [acc |-> NoRow, res |-> NotFoundRes]
    ELSE Account_deposit(found, cents, t, mode)

\* AccountService::deposit up to and including find_by_id, the conversion
\* to cents and Account::deposit.
deposit_find(c, id, q, t, mode, db_ok) ==
    /\ task[c].pc = "idle"
    /\  LET found == find_by_id(store, id)
            cents == amount_cents(q)
            r == deposit_sync(found, cents, t, mode)
        IN
        IF ~db_ok
        THEN /\ last' = Event("Deposit", "lookup", id, "", cents,
                              Repository, NoRow, <<>>, db_ok)
             /\ UNCHANGED task
        ELSE IF r.res.kind # "Ok"
        THEN /\ last' = Event("Deposit", "lookup", id, "", cents,
                              r.res, NoRow, <<>>, db_ok)
             /\ UNCHANGED task
        ELSE /\ last' = Event("Deposit", "lookup", id, "", cents,
                              Pending, NoRow, <<>>, db_ok)
             /\ task' = [task EXCEPT ![c] =
                            [pc |-> "deposit", id |-> id, amount |-> cents,
                             acct |-> r.acc]]
    /\ UNCHANGED <<store, nextId, deleted, ledger, entVars>>

\* AccountService::deposit: repository.update and the return.  book: the
\* ledger is kept.
deposit_update(c, db_ok, book) ==
    /\ task[c].pc = "deposit"
    /\  IF db_ok
        THEN /\ store' = update(store, task[c].acct)
             /\ ledger' = IF book
                          THEN Booked(ledger, task[c].id, task[c].amount)
                          ELSE ledger
             /\ last' = Event("Deposit", "write", task[c].id, "",
                              task[c].amount, Ok, task[c].acct, <<>>, db_ok)
        ELSE /\ store' = store
             /\ ledger' = ledger
             /\ last' = Event("Deposit", "write", task[c].id, "",
                              task[c].amount, Repository, NoRow, <<>>, db_ok)
    /\ task' = [task EXCEPT ![c] = Idle]
    /\ UNCHANGED <<nextId, deleted, entVars>>

\* withdraw_sync as it would be with the result of Account::withdraw
\* dropped instead of returned.
withdraw_sync_ignores_error(found, cents, t) ==
    IF found = NoRow
    THEN [acc |-> NoRow, res |-> NotFoundRes]
    ELSE [acc |-> Account_withdraw(found, cents, t).acc, res |-> Ok]

\* AccountService::withdraw between find_by_id and update: the not-found
\* check first, then Account::withdraw on the account found.
withdraw_sync(found, cents, t) ==
    IF found = NoRow
    THEN [acc |-> NoRow, res |-> NotFoundRes]
    ELSE Account_withdraw(found, cents, t)

\* AccountService::withdraw up to and including find_by_id, the conversion
\* to cents and Account::withdraw.
withdraw_find(c, id, q, t, db_ok) ==
    /\ task[c].pc = "idle"
    /\  LET found == find_by_id(store, id)
            cents == amount_cents(q)
            r == withdraw_sync(found, cents, t)
        IN
        IF ~db_ok
        THEN /\ last' = Event("Withdraw", "lookup", id, "", cents,
                              Repository, NoRow, <<>>, db_ok)
             /\ UNCHANGED task
        ELSE IF r.res.kind # "Ok"
        THEN /\ last' = Event("Withdraw", "lookup", id, "", cents,
                              r.res, NoRow, <<>>, db_ok)
             /\ UNCHANGED task
        ELSE /\ last' = Event("Withdraw", "lookup", id, "", cents,
                              Pending, NoRow, <<>>, db_ok)
             /\ task' = [task EXCEPT ![c] =
                            [pc |-> "withdraw", id |-> id, amount |-> cents,
                             acct |-> r.acc]]
    /\ UNCHANGED <<store, nextId, deleted, ledger, entVars>>

\* AccountService::withdraw: repository.update and the return.  book: the
\* ledger is kept.
withdraw_update(c, db_ok, book) ==
    /\ task[c].pc = "withdraw"
    /\  IF db_ok
        THEN /\ store' = update(store, task[c].acct)
             /\ ledger' = IF book
                          THEN Booked(ledger, task[c].id, -task[c].amount)
                          ELSE ledger
             /\ last' = Event("Withdraw", "write", task[c].id, "",
                              task[c].amount, Ok, task[c].acct, <<>>, db_ok)
        ELSE /\ store' = store
             /\ ledger' = ledger
             /\ last' = Event("Withdraw", "write", task[c].id, "",
                              task[c].amount, Repository, NoRow, <<>>, db_ok)
    /\ task' = [task EXCEPT ![c] = Idle]
    /\ UNCHANGED <<nextId, deleted, entVars>>

\* delete_account_find as it would be if a failed find_by_id were taken
\* for a row found.
delete_account_find_unchecked(c, id, db_ok) ==
    /\ task[c].pc = "idle"
    /\  LET found == find_by_id(store, id) IN
        IF db_ok /\ found = NoRow
        THEN /\ last' = Event("Delete", "lookup", id, "", 0,
                              NotFoundRes, NoRow, <<>>, db_ok)
             /\ task' = task
        ELSE /\ last' = Event("Delete", "lookup", id, "", 0,
                              Pending, NoRow, <<>>, db_ok)
             /\ task' = [task EXCEPT ![c] =
                            [pc |-> "delete", id |-> id, amount |-> 0,
                             acct |-> NoRow]]
    /\ UNCHANGED <<store, nextId, deleted, ledger, entVars>>

\* AccountService::delete_account up to and including find_by_id.
delete_account_find(c, id, db_ok) ==
    /\ task[c].pc = "idle"
    /\  LET found == find_by_id(store, id) IN
        IF ~db_ok
        THEN /\ last' = Event("Delete", "lookup", id, "", 0,
                              Repository, NoRow, <<>>, db_ok)
             /\ task' = task
        ELSE IF found = NoRow
        THEN /\ last' = Event("Delete", "lookup", id, "", 0,
                              NotFoundRes, NoRow, <<>>, db_ok)
             /\ task' = task
        ELSE /\ last' = Event("Delete", "lookup", id, "", 0,
                              Pending, NoRow, <<>>, db_ok)
             /\ task' = [task EXCEPT ![c] =
                            [pc |-> "delete", id |-> id, amount |-> 0,
                             acct |-> NoRow]]
    /\ UNCHANGED <<store, nextId, deleted, ledger, entVars>>

\* AccountService::delete_account: repository.delete and the return.
delete_account_delete(c, db_ok) ==
    /\ task[c].pc = "delete"
    /\  IF db_ok
        THEN /\ store' = delete(store, task[c].id)
             /\ deleted' = deleted \cup {task[c].id}
             /\ last' = Event("Delete", "write", task[c].id, "", 0,
                              Ok, NoRow, <<>>, db_ok)
        ELSE /\ store' = store
             /\ deleted' = deleted
             /\ last' = Event("Delete", "write", task[c].id, "", 0,
                              Repository, NoRow, <<>>, db_ok)
    /\ task' = [task EXCEPT ![c] = Idle]
    /\ UNCHANGED <<nextId, ledger, entVars>>

\* The use cases of caller c, on request amounts from qs, with clock
\* readings from ts and store calls that succeed (db = {TRUE}) or may also
\* fail (db = BOOLEAN); book: the ledger is kept.
Step(c, qs, ts, db, book) ==
    \/ \E rq \in CreateRequests, t \in ts, db_ok \in db :
           create_account_find(c, rq.name, rq.currency, t, db_ok)
    \/ \E db_ok \in db : create_account_insert(c, db_ok)
    \/ \E id \in Ids, db_ok \in db : get_account(c, id, db_ok)
    \/ \E db_ok \in db : get_all_accounts(c, db_ok)
    \/ \E id \in Ids, q \in qs, t \in ts, mode \in OverflowModes,
          db_ok \in db :
           deposit_find(c, id, q, t, mode, db_ok)
    \/ \E db_ok \in db : deposit_update(c, db_ok, book)
    \/ \E id \in Ids, q \in qs, t \in ts, db_ok \in db :
           withdraw_find(c, id, q, t, db_ok)
    \/ \E db_ok \in db : withdraw_update(c, db_ok, book)
    \/ \E id \in Ids, db_ok \in db : delete_account_find(c, id, db_ok)
    \/ \E db_ok \in db : delete_account_delete(c, db_ok)

\* Spec: the use cases run one at a time (a single caller), every store
\* call succeeds.
Next == Step("c1", RequestAmounts, TwoReadings, {TRUE}, FALSE)

Spec == Init /\ [][Next]_vars

\* A store that holds "Wallet", just created at reading 0, with no call in
\* flight.
WalletInit ==
    LET acc == Account_new(1, "Wallet", "USD", 0) IN
    /\ store = [i \in Ids |-> IF i = 1 THEN acc ELSE NoRow]
    /\ nextId = 2
    /\ task = [c \in Callers |-> Idle]
    /\ last = Event("Create", "write", 1, "Wallet", 0, Ok, acc, <<>>, TRUE)
    /\ deleted = {}
    /\ ledger = [i \in Ids |-> 0]
    /\ ent = NoRow
    /\ entLast = EntCall("none", 0, NoRow, NoRes, NoRes)
    /\ entMutated = FALSE
    /\ entTrace = <<>>

\* CreateRaceSpec: the Creates of all the callers interleave at their store
\* calls; every store call succeeds.
CreateRaceNext ==
    \E c \in Callers :
        \/ \E req \in CreateRequests, t \in TwoReadings :
               create_account_find(c, req.name, req.currency, t, TRUE)
        \/ create_account_insert(c, TRUE)

CreateRaceSpec == Init /\ [][CreateRaceNext]_vars

\* RaceSpec: the use cases of all the callers interleave at their store
\* calls, on a store that holds "Wallet" and to which "Savings" can be
\* added; every store call succeeds.
RaceAmounts == {Dyadic(7)}
RaceNext ==
    \E c \in Callers :
        \/ \E t \in TwoReadings :
               create_account_find(c, "Savings", "USD", t, TRUE)
        \/ create_account_insert(c, TRUE)
        \/ \E id \in Ids : get_account(c, id, TRUE)
        \/ get_all_accounts(c, TRUE)
        \/ \E id \in Ids, q \in RaceAmounts, t \in TwoReadings,
              mode \in OverflowModes :
               deposit_find(c, id, q, t, mode, TRUE)
        \/ deposit_update(c, TRUE, FALSE)
        \/ \E id \in Ids, q \in RaceAmounts, t \in TwoReadings :
               withdraw_find(c, id, q, t, TRUE)
        \/ withdraw_update(c, TRUE, FALSE)
        \/ \E id \in Ids : delete_account_find(c, id, TRUE)
        \/ delete_account_delete(c, TRUE)

RaceSpec == WalletInit /\ [][RaceNext]_vars

\* LedgerSpec: the use cases run one at a time, every store call succeeds
\* and the ledger is kept.
LedgerAmounts == {Minus(Dyadic(7)), Dyadic(7), Dyadic(6)}
LedgerNext == Step("c1", LedgerAmounts, TwoReadings, {TRUE}, TRUE)

LedgerSpec == Init /\ [][LedgerNext]_vars

\* FailSpec: the use cases run one at a time and any store call can fail.
FailAmounts == {Minus(Dyadic(7)), Dyadic(7)}
FailNext == Step("c1", FailAmounts, TwoReadings, BOOLEAN, FALSE)

FailSpec == Init /\ [][FailNext]_vars

\* LostUpdateSpec: Deposits and Withdraws of concurrent callers on the
\* accounts of a store that holds "Wallet", just created; every store call
\* succeeds and the ledger is kept.
LostUpdateAmounts == {Dyadic(7), Dyadic(6)}

LostUpdateNext ==
    \E c \in Callers :
        \/ \E id \in Ids, q \in LostUpdateAmounts, t \in ClockReadings,
              mode \in OverflowModes :
               deposit_find(c, id, q, t, mode, TRUE)
        \/ deposit_update(c, TRUE, TRUE)
        \/ \E id \in Ids, q \in LostUpdateAmounts, t \in ClockReadings :
               withdraw_find(c, id, q, t, TRUE)
        \/ withdraw_update(c, TRUE, TRUE)

LostUpdateSpec == WalletInit /\ [][LostUpdateNext]_vars

\* --------------------------------------- ApiSpec: errors to HTTP responses
\* An AccountServiceError: a DomainError with its payload (msg, or the two
\* figures of InsufficientFunds), or Repository with the store's error
\* (detail: what the sqlx::Error displays as).
SvcError(kind, msg, available, requested, detail) ==
    [kind |-> kind, msg |-> msg, available |-> available,
     requested |-> requested, detail |-> detail]

StoreErrors ==
    {"pool timed out while waiting for an open connection",
     "error returned from database: relation \"accounts\" does not exist",
     "error communicating with database: connection refused"}

\* The errors the handlers convert.
ServiceErrors ==
    {SvcError("AccountNotFound", m, 0, 0, "") : m \in {"id-1", "id-2"}}
    \cup {SvcError("AccountAlreadyExists", n, 0, 0, "") : n \in Names}
    \cup {SvcError("InvalidAmount", "Amount must be positive", 0, 0, "")}
    \cup {SvcError("InsufficientFunds", "", a, r, "") :
              a \in {-250, 0, 5050}, r \in {1, 6000}}
    \cup {SvcError("Repository", "", 0, 0, d) : d \in StoreErrors}

\* A value put into a message: a piece of text, or a number by its sign,
\* whole part and two decimals.
Text(s) == [text |-> s, negative |-> FALSE, whole |-> 0, hundredths |-> 0]

\* `cents as f64` for cents > 0: the nearest f64.
i64_as_f64(cents) == f64_nearest(cents, 1)

\* x / 100.0 for an f64 x > 0.
f64_div_100(x) ==
    IF x.e >= 0 THEN f64_nearest(x.m * Pow2(x.e), 100)
    ELSE f64_nearest(x.m, 100 * Pow2(-x.e))

\* {:.2} for an f64 y > 0: the number of hundredths nearest to y (y is
\* never halfway between two, a half of a hundredth being no f64).
f64_hundredths(y) ==
    IF y.e >= 0 THEN y.m * Pow2(y.e) * 100
    ELSE RoundHalfEven(y.m * 100, Pow2(-y.e))

\* The hundredths format!("{:.2}", cents as f64 / 100.0) shows for
\* cents >= 0.  Below 2^30 cents the conversion is exact and the quotient
\* is within 2^-30 of cents / 100, so what is shown is cents itself; above,
\* the conversion keeps 53 bits and the quotient is up to 8 away from
\* cents / 100 (i64::MAX is shown as 92233720368547760.00).
hundredths_shown(cents) ==
    IF cents < Pow2(30) THEN cents
    ELSE f64_hundredths(f64_div_100(i64_as_f64(cents)))

\* format!("{:.2}", cents as f64 / 100.0).
Decimal2(cents) ==
    LET h == hundredths_shown(IF cents < 0 THEN -cents ELSE cents) IN
    [text |-> "", negative |-> cents < 0, whole |-> h \div 100,
     hundredths |-> h % 100]

\* A message: a format string and the values put into it.
Message(fmt, args) == [fmt |-> fmt, args |-> args]

ApiError_new(status, message) == [status |-> status, message |-> message]

\* From<AccountServiceError> for ApiError as it would be if the store's
\* error were passed on as the message.
ApiError_from_passes_detail(err) ==
    CASE err.kind = "AccountNotFound" ->
             ApiError_new(404, Message("{}", <<Text(err.msg)>>))
      [] err.kind = "AccountAlreadyExists" ->
             ApiError_new(409, Message("Account '{}' already exists",
                                       <<Text(err.msg)>>))
      [] err.kind = "InsufficientFunds" ->
             ApiError_new(400,
                 Message("Insufficient funds: available {:.2}, requested {:.2}",
                         <<Decimal2(err.available), Decimal2(err.requested)>>))
      [] err.kind = "InvalidAmount" ->
             ApiError_new(400, Message("{}", <<Text(err.msg)>>))
      [] OTHER ->
             ApiError_new(500, Message("{}", <<Text(err.detail)>>))

\* From<AccountServiceError> for ApiError.
ApiError_from(err) ==
    CASE err.kind = "AccountNotFound" ->
             ApiError_new(404, Message("{}", <<Text(err.msg)>>))
      [] err.kind = "AccountAlreadyExists" ->
             ApiError_new(409, Message("Account '{}' already exists",
                                       <<Text(err.msg)>>))
      [] err.kind = "InsufficientFunds" ->
             ApiError_new(400,
                 Message("Insufficient funds: available {:.2}, requested {:.2}",
                         <<Decimal2(err.available), Decimal2(err.requested)>>))
      [] err.kind = "InvalidAmount" ->
             ApiError_new(400, Message("{}", <<Text(err.msg)>>))
      [] OTHER ->
             ApiError_new(500, Message("Internal server error", <<>>))

\* What tracing::error! writes while the error is converted.
ApiError_from_log(err) ==
    IF err.kind = "Repository"
    THEN <<Message("Repository error: {}", <<Text(err.detail)>>)>>
    ELSE <<>>

\* IntoResponse for ApiError: the status and the body {"error": message}.
into_response(api) == [status |-> api.status, body |-> [error |-> api.message]]

\* One handler call that ended in err: the error, the response sent and
\* the lines logged.
Handled(err) ==
    [err |-> err, response |-> into_response(ApiError_from(err)),
     log |-> ApiError_from_log(err)]

NotHandled == [err |-> SvcError("none", "", 0, 0, "")]

ApiInit ==
    /\ store = [i \in Ids |-> NoRow]
    /\ nextId = 1
    /\ task = [c \in Callers |-> [pc |-> "idle", id |-> 0, amount |-> 0, acct |-> NoRow]]
    /\ last = [op |-> "none", cur |-> NotHandled, prev |-> NotHandled]
    /\ deleted = {}
    /\ ledger = [i \in Ids |-> 0]
    /\ ent = NoRow
    /\ entLast = [op |-> "none"]
    /\ entMutated = FALSE
    /\ entTrace = <<>>

\* A handler's use case returns Err(err) and `?` converts it; `last` keeps
\* this call and the one before it.
ApiRespond ==
    /\ \E err \in ServiceErrors :
        last' = [op |-> "respond", cur |-> Handled(err), prev |-> last.cur]
    /\ UNCHANGED <<store, nextId, task, deleted, ledger, entVars>>

ApiNext == ApiRespond

ApiSpec == ApiInit /\ [][ApiNext]_vars

\* ------------------------------------------------ claims on the entity

\* C3: withdraw(amount) with amount > balance and amount > 0 returns
\* InsufficientFunds{available: balance before the call, requested: amount}
\* and leaves balance and updated_at as they were.
C3_WithdrawInsufficient ==
    (/\ entLast.op = "withdraw"
     /\ entLast.amount > 0
     /\ entLast.amount > entLast.before.balance)
    => /\ entLast.r1 = InsufficientFunds(entLast.before.balance, entLast.amount)
       /\ ent.balance = entLast.before.balance
       /\ ent.updated_at = entLast.before.updated_at

\* C3 witness: a withdraw of more than a positive balance was refused.
C3_Witness ==
    /\ entLast.op = "withdraw"
    /\ entLast.r1.kind = "InsufficientFunds"
    /\ entLast.before.balance > 0
    /\ entLast.amount > entLast.before.balance

\* C4: deposit(amount) and withdraw(amount) with amount <= 0 return
\* InvalidAmount and leave balance and updated_at as they were, whatever
\* the balance is.
C4_NonPositiveAmount ==
    (entLast.op \in {"deposit", "withdraw"} /\ entLast.amount <= 0)
    => /\ entLast.r1 = InvalidAmount
       /\ ent.balance = entLast.before.balance
       /\ ent.updated_at = entLast.before.updated_at

\* C4 witness: withdraw(0) on an account with a positive balance was
\* refused.
C4_Witness ==
    /\ entLast.op = "withdraw"
    /\ entLast.amount = 0
    /\ entLast.r1.kind = "InvalidAmount"
    /\ entLast.before.balance > 0

\* C5: for every amount a > 0, deposit(a) immediately followed by
\* withdraw(a) both succeed and leave the balance as it was before the
\* deposit, with id, name and currency unchanged.
C5_DepositWithdrawRoundTrip ==
    (entLast.op = "deposit_withdraw" /\ entLast.amount > 0)
    => /\ entLast.r1 = Ok
       /\ entLast.r2 = Ok
       /\ ent.balance = entLast.before.balance
       /\ ent.id = entLast.before.id
       /\ ent.name = entLast.before.name
       /\ ent.currency = entLast.before.currency

\* C6: updated_at >= created_at always, the two are equal exactly when no
\* deposit or withdraw has succeeded, and each successful deposit or
\* withdraw makes updated_at strictly greater than it was.
C6_Original ==
    /\ ent.updated_at >= ent.created_at
    /\ (ent.updated_at = ent.created_at) <=> ~entMutated
    /\ (entLast.op \in {"deposit", "withdraw"} /\ entLast.r1.kind = "Ok")
       => ent.updated_at > entLast.before.updated_at

\* C15: a deposit(a) with a > 0 succeeds and sets the balance to exactly
\* the previous balance plus a, for every previous balance and every a of
\* the balance type; there is no balance at which it fails or gives
\* another value.
C15_DepositAddsExactly ==
    (entLast.op = "deposit" /\ entLast.amount > 0)
    => /\ entLast.r1 = Ok
       /\ ent.balance = entLast.before.balance + entLast.amount

\* The calls of the scenario, in order.
Scenario ==
    <<[op |-> "deposit", amount |-> 10050],
      [op |-> "withdraw", amount |-> 5000],
      [op |-> "withdraw", amount |-> 6000]>>

\* The first n calls made are the first n calls of the scenario.
FollowsScenario(n) ==
    /\ Len(entTrace) >= n
    /\ \A k \in 1..n : /\ entTrace[k].op = Scenario[k].op
                       /\ entTrace[k].amount = Scenario[k].amount

\* C11: create("Savings", "USD") gives balance 0; then deposit 10050 gives
\* balance 10050; then withdraw 5000 gives balance 5050; then withdraw 6000
\* fails with InsufficientFunds{available: 5050, requested: 6000} and the
\* balance is still 5050.
C11_Scenario ==
    /\ Len(entTrace) = 0 => ent.balance = 0
    /\ FollowsScenario(1)
       => /\ entTrace[1].res = Ok
          /\ entTrace[1].balance = 10050
    /\ FollowsScenario(2)
       => /\ entTrace[2].res = Ok
          /\ entTrace[2].balance = 5050
    /\ FollowsScenario(3)
       => /\ entTrace[3].res = InsufficientFunds(5050, 6000)
          /\ entTrace[3].balance = 5050
    /\ Len(entTrace) > 0 => ent.balance = entTrace[Len(entTrace)].balance

\* C11 witness: the three calls of the scenario have been made and the
\* last one was refused.
C11_Witness ==
    /\ Len(entTrace) = 3
    /\ FollowsScenario(3)
    /\ entTrace[3].res.kind = "InsufficientFunds"
    /\ ent.name = "Savings"
    /\ ent.currency = "USD"

\* ---------------------------------------------- claims on the repository
\* Two characters that are the same letter in either case.
CasePairs ==
    {{"W", "w"}, {"A", "a"}, {"L", "l"}, {"E", "e"}, {"T", "t"}, {"S", "s"}}

\* Names a and b are equal when letter case is ignored.
EqualIgnoringCase(a, b) ==
    /\ Len(Letters(a)) = Len(Letters(b))
    /\ \A k \in 1..Len(Letters(a)) :
           \/ Letters(a)[k] = Letters(b)[k]
           \/ {Letters(a)[k], Letters(b)[k]} \in CasePairs

\* C12: find_by_name(n) returns a stored account exactly when some live
\* account's name equals n ignoring letter case, and the account returned
\* is such an account; an account created as "Wallet" is returned for
\* "wallet", "WALLET" and "WaLLeT"; nothing is returned when no live name
\* matches.
C12_FindByNameIgnoresCase ==
    /\ last.op = "find_by_name"
       => /\ (last.acct # NoRow)
               <=> (\E i \in Ids : /\ store[i] # NoRow
                                   /\ EqualIgnoringCase(store[i].name, last.name))
          /\ last.acct # NoRow
               => /\ store[last.acct.id] = last.acct
                  /\ EqualIgnoringCase(last.acct.name, last.name)
    /\ \A i \in Ids :
           (store[i] # NoRow /\ store[i].name = "Wallet")
           => \A n \in {"wallet", "WALLET", "WaLLeT"} :
                  /\ NoRow \notin find_by_name(store, n)
                  /\ (\A j \in Ids \ {i} : store[j] = NoRow)
                        => find_by_name(store, n) = {store[i]}

\* C12 witness: find_by_name("WaLLeT") returned the account created as
\* "Wallet".
C12_Witness ==
    /\ last.op = "find_by_name"
    /\ last.name = "WaLLeT"
    /\ last.acct # NoRow
    /\ last.acct.name = "Wallet"

\* ----------------------------------------------- claims on the use cases
Live(tbl) == {i \in Ids : tbl[i] # NoRow}

\* Some live row of tbl has the name n, letter case ignored.
NameTaken(tbl, n) ==
    \E i \in Live(tbl) : to_lowercase(tbl[i].name) = to_lowercase(n)

DomainFailures == {"InvalidAmount", "InsufficientFunds"}

\* The entity call of use case op on account acc with cents fails with a
\* DomainError (the clock reading plays no part in that).
EntityFails(op, acc, cents) ==
    IF op = "Deposit"
    THEN \A mode \in OverflowModes :
             Account_deposit(acc, cents, 0, mode).res.kind \in DomainFailures
    ELSE Account_withdraw(acc, cents, 0).res.kind \in DomainFailures

\* C1: every account held by the store has balance >= 0 in every reachable
\* state, whatever Create, Deposit, Withdraw and Delete invocations led
\* there.
C1_StoredBalanceNonNegative ==
    \A i \in Live(store) : store[i].balance >= 0

\* C2: no two live accounts have names that are equal when compared
\* case-insensitively, also when Create invocations of different callers
\* interleave at their store calls.
C2_NamesUniqueIgnoringCase ==
    \A i, j \in Live(store) :
        i # j => to_lowercase(store[i].name) # to_lowercase(store[j].name)

\* C7: a Create whose name equals, letter case ignored, the name of an
\* account the store holds fails with AccountAlreadyExists, inserts
\* nothing and leaves the store as it was.
C7_CreateRejectsTakenName ==
    [][(/\ last'.op = "Create"
        /\ last'.phase = "lookup"
        /\ NameTaken(store, last'.name))
       => (/\ last'.res = AlreadyExists
           /\ store' = store
           /\ task' = task
           /\ nextId' = nextId)]_vars

\* C7 witness: with "Wallet" in the store, Create("WALLET") was refused.
C7_Witness ==
    /\ last.op = "Create"
    /\ last.name = "WALLET"
    /\ last.res.kind = "AccountAlreadyExists"
    /\ \E i \in Live(store) : store[i].name = "Wallet"

\* C8: when the entity's deposit or withdraw fails inside the Deposit or
\* Withdraw use case, the use case returns that failure, makes no update
\* call (no write stays pending) and the store is as it was.
C8_FailedMutationWritesNothing ==
    [][(/\ last'.op \in {"Deposit", "Withdraw"}
        /\ last'.phase = "lookup"
        /\ store[last'.id] # NoRow
        /\ EntityFails(last'.op, store[last'.id], last'.amount))
       => (/\ last'.res.kind \in DomainFailures
           /\ store' = store
           /\ task' = task)]_vars

\* C8 witness: a Withdraw of more than the stored positive balance was
\* refused and the row is still there.
C8_Witness ==
    /\ last.op = "Withdraw"
    /\ last.res.kind = "InsufficientFunds"
    /\ last.res.available > 0
    /\ store[last.id] # NoRow
    /\ store[last.id].balance = last.res.available
    /\ \A c \in Callers : task[c].pc = "idle"

\* C9: Get, Deposit, Withdraw and Delete on an id that is not in the store
\* fail with AccountNotFound and leave the store as it was, whatever the
\* amount (the lookup comes first).
C9_AbsentIdNotFound ==
    [][(/\ last'.op \in {"Get", "Deposit", "Withdraw", "Delete"}
        /\ last'.phase = "lookup"
        /\ store[last'.id] = NoRow)
       => (/\ last'.res = NotFoundRes
           /\ store' = store
           /\ task' = task)]_vars

\* C9 witness: a Deposit of a non-positive amount on an absent id came back
\* AccountNotFound.
C9_Witness ==
    /\ last.op = "Deposit"
    /\ last.amount <= 0
    /\ last.res.kind = "AccountNotFound"
    /\ store[last.id] = NoRow

\* C10: once Delete(id) has succeeded the id stays out of the store, every
\* later Get, Deposit, Withdraw and Delete of it fails with
\* AccountNotFound, ListAll does not list it, and Delete of an id that was
\* never handed out fails with AccountNotFound.
C10_DeletedStaysGone ==
    /\ \A i \in deleted : store[i] = NoRow
    /\ (/\ last.op \in {"Get", "Deposit", "Withdraw", "Delete"}
        /\ last.phase = "lookup"
        /\ last.id \in deleted)
       => last.res = NotFoundRes
    /\ last.op = "ListAll"
       => \A k \in 1..Len(last.list) : last.list[k] \notin deleted
    /\ (last.op = "Delete" /\ last.phase = "lookup" /\ last.id >= nextId)
       => last.res = NotFoundRes

\* C10 witness: a Get of an id whose Delete had succeeded came back
\* AccountNotFound while another account was live.
C10_Witness ==
    /\ last.op = "Get"
    /\ last.id \in deleted
    /\ last.res.kind = "AccountNotFound"
    /\ Live(store) # {}

\* The kinds of DomainError.
DomainErrorKinds ==
    {"InvalidAmount", "InsufficientFunds", "AccountNotFound",
     "AccountAlreadyExists"}

\* The domain failures the interface table lists for a use case.
AllowedFailures(op) ==
    CASE op = "Create" -> {"AccountAlreadyExists"}
      [] op \in {"Get", "Delete"} -> {"AccountNotFound"}
      [] op = "Deposit" -> {"AccountNotFound", "InvalidAmount"}
      [] op = "Withdraw" ->
             {"AccountNotFound", "InvalidAmount", "InsufficientFunds"}
      [] OTHER -> {}

\* C13: the domain failure a use case returns is one the interface table
\* lists for it: Create only AccountAlreadyExists; Get and Delete only
\* AccountNotFound; Deposit only AccountNotFound or InvalidAmount; Withdraw
\* only AccountNotFound, InvalidAmount or InsufficientFunds; ListAll none.
C13_FailureKindsPerUseCase ==
    last.res.kind \in DomainErrorKinds
    => last.res.kind \in AllowedFailures(last.op)

\* C13 witness: a Deposit of more than the stored balance went through to
\* its update (no InsufficientFunds), on an account a Withdraw could not
\* have taken that amount from.
C13_Witness ==
    /\ last.op = "Deposit"
    /\ last.phase = "lookup"
    /\ last.res.kind = "pending"
    /\ store[last.id] # NoRow
    /\ last.amount > store[last.id].balance

\* 1 if the step just taken is the successful store write of use case op,
\* else 0.
Succeeded(ev, op) ==
    IF ev.op = op /\ ev.phase = "write" /\ ev.res.kind = "Ok" THEN 1 ELSE 0

\* C14: ListAll returns every account live in the store at the time of the
\* call exactly once and no deleted account; the number of live accounts
\* starts at 0, goes up by one with each Create that succeeds and down by
\* one with each Delete that succeeds, and is changed by nothing else, so
\* it equals successful creations minus successful deletions.
C14_ListAllEveryLiveOnce ==
    /\ [](last.op = "ListAll"
            => /\ Len(last.list) = Cardinality(Live(store))
               /\ {last.list[k] : k \in 1..Len(last.list)} = Live(store)
               /\ \A k \in 1..Len(last.list) : last.list[k] \notin deleted)
    /\ [](Cardinality(Live(store))
             = (nextId - 1) - Cardinality({c \in Callers : task[c].pc = "create"})
               - Cardinality(deleted))
    /\ [][Cardinality(Live(store'))
             = Cardinality(Live(store)) + Succeeded(last', "Create")
               - Succeeded(last', "Delete")]_vars

\* C14 witness: with two accounts created and one of them deleted, ListAll
\* returned one entry.
C14_Witness ==
    /\ last.op = "ListAll"
    /\ Len(last.list) = 1
    /\ nextId = 3
    /\ Cardinality(deleted) = 1

\* ------------------------------------------- claims on the HTTP boundary
\* The status the spec gives for a kind of service error.
StatusOf(kind) ==
    CASE kind = "AccountNotFound" -> 404
      [] kind = "AccountAlreadyExists" -> 409
      [] kind \in {"InvalidAmount", "InsufficientFunds"} -> 400
      [] kind = "Repository" -> 500

\* C16: the status of the response to a service error depends on the
\* error's kind alone: AccountNotFound 404, AccountAlreadyExists 409,
\* InvalidAmount and InsufficientFunds 400, Repository 500; a Repository
\* error gives the fixed body "Internal server error", so two different
\* store errors give identical responses and no store detail is in any
\* response.
C16_ResponseByKindAlone ==
    last.op = "respond"
    => /\ last.cur.response.status = StatusOf(last.cur.err.kind)
       /\ last.cur.err.kind = "Repository"
          => last.cur.response
               = [status |-> 500,
                  body |-> [error |-> Message("Internal server error", <<>>)]]
       /\ (last.prev # NotHandled /\ last.prev.err.kind = last.cur.err.kind)
          => last.prev.response.status = last.cur.response.status
       /\ (/\ last.prev # NotHandled
           /\ last.prev.err.kind = "Repository"
           /\ last.cur.err.kind = "Repository")
          => last.prev.response = last.cur.response
       /\ last.cur.response.body.error.fmt \notin StoreErrors
       /\ \A k \in 1..Len(last.cur.response.body.error.args) :
              last.cur.response.body.error.args[k].text \notin StoreErrors

\* C16 witness: two different store errors were answered one after the
\* other, with the same response, and both were logged.
C16_Witness ==
    /\ last.op = "respond"
    /\ last.prev # NotHandled
    /\ last.prev.err.kind = "Repository"
    /\ last.cur.err.kind = "Repository"
    /\ last.prev.err.detail # last.cur.err.detail
    /\ last.prev.response = last.cur.response
    /\ last.prev.log # last.cur.log

\* C20: with the use cases run one at a time and every store call
\* succeeding, the stored balance of each live account equals the amounts
\* of its successful Deposits minus the amounts of its successful Withdraws
\* since creation.
C20_BalanceIsLedger ==
    \A i \in Live(store) : store[i].balance = ledger[i]

\* ------------------------------------------ claims on concurrent callers
\* C17: nothing ties a Deposit's or Withdraw's update to its find_by_id:
\* the update of a pending Deposit or Withdraw returns success and, when
\* the row is there, overwrites the stored balance with the value that
\* caller computed from its own read, whatever has been written to the row
\* since; so when two of them read before either writes, both succeed and
\* the stored balance shows one mutation only.
C17_UpdateOverwrites ==
    [][\A c \in Callers :
          (task[c].pc \in {"deposit", "withdraw"} /\ task'[c] = Idle)
          => /\ last'.res = Ok
             /\ last'.acct = task[c].acct
             /\ store[task[c].id] # NoRow
                => store'[task[c].id].balance = task[c].acct.balance]_vars

\* C17 witness: two Deposits of one cent on account 1 have both returned
\* success (the ledger says two cents), no call is in flight, and the
\* stored balance is one cent.
C17_Witness ==
    /\ \A c \in Callers : task[c].pc = "idle"
    /\ last.op = "Deposit"
    /\ last.res = Ok
    /\ ledger[1] = 2
    /\ store[1].balance = 1

\* C19: while an account is stored, its id, created_at, name and currency
\* stay as they were at creation under every interleaving of Deposits and
\* Withdraws on it; a step changes at most balance and updated_at, and
\* removes no account.
C19_IdentityFieldsImmutable ==
    /\ [](\A i \in Live(store) : store[i].id = i)
    /\ [][\A i \in Live(store) :
              /\ store'[i] # NoRow
              /\ store'[i].id = store[i].id
              /\ store'[i].created_at = store[i].created_at
              /\ store'[i].name = store[i].name
              /\ store'[i].currency = store[i].currency]_vars

\* C19 witness: a Deposit made after the clock moved on has been written
\* to the account created as ("Wallet", "USD") at reading 0.
C19_Witness ==
    /\ last.op = "Deposit"
    /\ last.phase = "write"
    /\ last.res = Ok
    /\ store[1].balance > 0
    /\ store[1].updated_at > 0
    /\ store[1].created_at = 0
    /\ store[1].name = "Wallet"
    /\ store[1].currency = "USD"

\* C21: a deleted account is never brought back.  The update of a Deposit
\* or Withdraw whose row is gone by then (its find_by_id came before a
\* Delete of the id completed) returns success and leaves the store as it
\* is, and an id whose Delete has succeeded is absent from the store in
\* every later state.
C21_DeletedNeverResurrected ==
    /\ [][/\ \A c \in Callers :
                (/\ task[c].pc \in {"deposit", "withdraw"}
                 /\ task'[c] = Idle
                 /\ store[task[c].id] = NoRow)
                => /\ last'.res = Ok
                   /\ last'.acct = task[c].acct
                   /\ store' = store
          /\ \A i \in deleted : store'[i] = NoRow]_vars
    /\ [](\A i \in deleted : store[i] = NoRow)

\* C21 witness: a Deposit on an id whose Delete succeeded after the
\* Deposit's find_by_id has made its update and returned success, with the
\* account it computed, and the id is absent from the store.
C21_Witness ==
    /\ last.op = "Deposit"
    /\ last.phase = "write"
    /\ last.res = Ok
    /\ last.acct # NoRow
    /\ last.acct.balance > 0
    /\ last.id \in deleted
    /\ store[last.id] = NoRow

\* C22: a step of a Deposit, Withdraw or Delete invoked on an id leaves the
\* row of every other id exactly as it was, whether the step succeeds or
\* fails and whatever other invocations are in flight; a step of Get or
\* ListAll leaves the whole store as it was.
C22_OtherAccountsUntouched ==
    [][/\ last'.op \in {"Deposit", "Withdraw", "Delete"}
          => \A j \in Ids \ {last'.id} : store'[j] = store[j]
       /\ last'.op \in {"Get", "ListAll"} => store' = store]_vars

\* C22 witness: a Delete has removed its account while another caller's
\* call was in flight, and another account with money on it is stored.
C22_Witness ==
    /\ last.op = "Delete"
    /\ last.phase = "write"
    /\ last.res = Ok
    /\ store[last.id] = NoRow
    /\ \E c \in Callers : task[c].pc # "idle"
    /\ \E j \in Ids \ {last.id} : store[j] # NoRow /\ store[j].balance > 0

\* ------------------------------------------- claims on failing store calls
\* The position a caller is in between the lookup and the write of op.
PendingPc(op) ==
    CASE op = "Create" -> "create"
      [] op = "Deposit" -> "deposit"
      [] op = "Withdraw" -> "withdraw"
      [] op = "Delete" -> "delete"
      [] OTHER -> "none"

\* C18: an invocation makes its store calls one after another: one lookup,
\* made by a caller with no call in flight, then at most one create,
\* update or delete, made once, after a lookup that succeeded, and ending
\* the invocation; Get and ListAll make no second call.  A store call that
\* fails ends the invocation with a Repository error: nothing is written
\* and no further call is pending.
C18_StoreCallsInSequence ==
    /\ [](last.res = Repository <=> ~last.ok)
    /\ [][/\ last'.phase = "lookup"
             => /\ task["c1"].pc = "idle"
                /\ task'["c1"].pc \in {"idle", PendingPc(last'.op)}
                /\ task'["c1"].pc # "idle" => (last'.ok /\ last'.res = Pending)
                /\ store' = store
          /\ last'.phase = "write"
             => /\ task["c1"].pc = PendingPc(last'.op)
                /\ task'["c1"] = Idle
                /\ last'.res \in {Ok, Repository}
          /\ last'.op \in {"Get", "ListAll"} => last'.phase = "lookup"
          /\ ~last'.ok
             => /\ last'.res = Repository
                /\ store' = store
                /\ task'["c1"] = Idle]_vars

\* C18 witness: the find_by_id of a Delete of a stored account failed; the
\* Delete returned a Repository error, the account is still stored and no
\* call is pending.
C18_Witness ==
    /\ last.op = "Delete"
    /\ last.phase = "lookup"
    /\ ~last.ok
    /\ last.res = Repository
    /\ store[last.id] # NoRow
    /\ task["c1"] = Idle

====